---- MODULE Spec2Model ----
(***************************************************************************)
(* A model of ramph, a workflow runner that hands the stories of a PRD to  *)
(* an external agent, one session per iteration, and journals the outcome. *)
(*                                                                         *)
(*   types.rs      Prd, Story, get_next_story, load_prd, validate_prd,     *)
(*                 check_output_file                                       *)
(*   amp.rs        run_iteration (the session driver)                      *)
(*   prompts.rs    load_prompt, load_progress, append_progress,            *)
(*                 clean_json_response                                     *)
(*   workflows.rs  run_command (the iteration loop), run_plan_command      *)
(*                                                                         *)
(* Text is modelled as a sequence of chunks, so that concatenation is \o   *)
(* and "is a prefix of" is the prefix order on sequences.  The timestamp   *)
(* of a journal entry is left out of the entry's chunk.                    *)
(***************************************************************************)
EXTENDS Integers, Sequences, FiniteSets, TLC

VARIABLES
    \* ---- scheduler, as a pure function (SpecSched)
    schedDoc,       \* the Prd given to get_next_story
    schedResult,    \* what it returned: an index into stories, 0 for None
    schedPc,        \* "input" | "called"
    \* ---- session driver, one invocation (SpecDriver)
    drvPc,          \* "idle" | "streaming" | "returned"
    drvCwdOk,       \* does cwd.canonicalize() succeed
    output_text,    \* run_iteration's accumulator
    delivered,      \* the items the stream has yielded so far, in order
    drvResult,      \* the value run_iteration returned
    \* ---- execute-tasks loop (Spec)
    pc,             \* "start" | "loop" | "session" | "done"
    max_iterations, \* the argument of run_command
    iteration,      \* the loop variable of `for iteration in 1..=max_iterations`
    cwdOk,          \* does cwd.canonicalize() succeed during this run
    promptOk,       \* does load_prompt succeed: no --prompt, or a file that reads
    prdFile,        \* the persisted document at prd_path
    progressFile,   \* the journal at progress_path
    initial_prd,    \* the document run_command loaded before the loop
    story_id,       \* the id cloned from the story selected in this iteration
    progress,       \* the journal text read for this iteration's prompt
    runResult,      \* "running" | "ok" | "err": what run_command returned
    \* ---- history of the run, for the properties
    invocations,    \* run_iteration calls so far
    appends,        \* entries append_progress has written so far
    docAtStart,     \* the persisted document when this iteration began
    lastOutcome,    \* what the last run_iteration call of the loop returned
    allSucceeded,   \* every run_iteration call so far returned Ok
    alwaysPending,  \* the persisted document has always held a story to do
    agentWrites,    \* edits the agent has made to the two files so far
    \* ---- structured extractor, as a pure function (SpecExtract)
    exInput,        \* the response given to clean_json_response
    exSearched,     \* its without_fences, the text the braces are sought in
    exResult,       \* what it returned
    exPc,           \* "input" | "called"
    \* ---- document validation, as a pure function (SpecValidate)
    valDoc,         \* the Prd given to validate_prd
    valResult,      \* what it returned
    valPc,          \* "input" | "called"
    \* ---- plan mode (SpecPlan)
    planPc,         \* "start" | "planning" | "extracting" | "confirm" | "done"
    force,          \* the overwrite flag
    outFile,        \* the file at output_path
    json_response,  \* the text the extraction session returned
    candidate,      \* the JSON object that the cleaned text denotes
    planPrd,        \* the document parsed and validated
    input,          \* the line read from the operator
    planResult,     \* "running" | "ok" | "err" | "panic"
    planInvocations,\* run_iteration calls so far
    planWrites,     \* save_prd calls so far
    prompted,       \* has the confirmation prompt been shown
    answered,       \* has read_line returned a line (or the end of input)
    sessions,       \* did it return Ok, for each run_iteration call returned
    \* ---- save_prd then load_prd, as pure functions (SpecRoundTrip)
    rtDoc,          \* the Prd given to save_prd
    rtFile,         \* the JSON object save_prd wrote
    rtLoaded,       \* what load_prd returned for that file
    rtPc,           \* "input" | "saved" | "loaded"
    \* ---- history of the sessions, in both modes
    active,         \* run_iteration calls begun and not yet returned
    ioWhileActive   \* the engine read or wrote a file of its own meanwhile

schedVars == <<schedDoc, schedResult, schedPc>>
drvVars   == <<drvPc, drvCwdOk, output_text, delivered, drvResult>>
loopVars  == <<pc, max_iterations, iteration, cwdOk, promptOk, prdFile, progressFile,
               initial_prd, story_id, progress, runResult>>
histVars  == <<invocations, appends, docAtStart, lastOutcome, allSucceeded,
               alwaysPending, agentWrites>>
exVars    == <<exInput, exSearched, exResult, exPc>>
valVars   == <<valDoc, valResult, valPc>>
planVars  == <<planPc, force, outFile, json_response, candidate, planPrd, input,
               planResult, planInvocations, planWrites, prompted, answered,
               sessions>>
rtVars    == <<rtDoc, rtFile, rtLoaded, rtPc>>
seqVars   == <<active, ioWhileActive>>
vars      == <<schedVars, drvVars, loopVars, histVars, exVars, valVars,
               planVars, rtVars, seqVars>>

-----------------------------------------------------------------------------
(* Bounds of the model. *)

\* stories in a document given to the scheduler alone
MaxStories == 3
\* stories in the document of a run
MaxRunStories == 2
\* the largest max_iterations of a run
MaxIterations == 2
\* items one stream delivers to the driver
MaxStream == 3
\* content blocks in one assistant message
MaxContent == 2
\* edits the agent makes to the document and the journal during one run
MaxAgentWrites == 1
\* characters (a fence marker counting as one) in a response to extract from
MaxText == 6
\* stories in a document given to validate_prd
MaxValStories == 2
\* stories in the JSON object an extraction session answers with
MaxJsonStories == 1
\* stories in a document given to save_prd
MaxSavedStories == 2

-----------------------------------------------------------------------------
(* Option<T> *)

None == [some |-> FALSE]
Some(x) == [some |-> TRUE, val |-> x]

\* Option::unwrap_or_default for Option<String>
UnwrapOrDefault(opt) == IF opt.some THEN opt.val ELSE ""

(* Result<T> *)
Ok(x) == [ok |-> TRUE, val |-> x]
Err(e) == [ok |-> FALSE, err |-> e]

\* is p a prefix of s
IsPrefix(p, s) == Len(p) <= Len(s) /\ SubSeq(s, 1, Len(p)) = p

\* the sequences over S of length at most n
SeqUpTo(S, n) == UNION {[1..k -> S] : k \in 0..n}

-----------------------------------------------------------------------------
(* types.rs: the Task Document. *)

Priorities == {-1, 0, 1, 2}
Ids == {"A", "B"}

\* struct Story
Story(id, priority, passes) ==
    [id |-> id, title |-> "t", description |-> "d", priority |-> priority,
     passes |-> passes, acceptance_criteria |-> <<"c">>]

\* struct Prd
Prd(stories) == [branch_name |-> "x", stories |-> stories]

\* a slip: the filter left out, every story a candidate
RECURSIVE Unfiltered(_, _)
Unfiltered(stories, i) ==
    IF i > Len(stories) THEN <<>> ELSE <<i>> \o Unfiltered(stories, i + 1)

\* Iterator::filter(|s| !s.passes), on the positions of the stories
RECURSIVE NotPassing(_, _)
NotPassing(stories, i) ==
    IF i > Len(stories) THEN <<>>
    ELSE (IF ~stories[i].passes THEN <<i>> ELSE <<>>)
         \o NotPassing(stories, i + 1)

\* a slip in the comparison: `>=` for `>`, which lets a later story of equal
\* priority win (what max_by_key does for the maximum)
MinStepLast(stories, best, next) ==
    IF stories[best].priority >= stories[next].priority THEN next ELSE best

\* Iterator::min_by_key(|s| s.priority) keeps the element it holds unless the
\* next one's key is strictly smaller
MinStep(stories, best, next) ==
    IF stories[best].priority > stories[next].priority THEN next ELSE best

RECURSIVE MinFold(_, _, _)
MinFold(stories, best, rest) ==
    IF rest = <<>> THEN best
    ELSE MinFold(stories, MinStep(stories, best, Head(rest)), Tail(rest))

\* Prd::get_next_story: the position of the story returned, 0 for None
get_next_story(prd) ==
    LET cand == NotPassing(prd.stories, 1)
    IN IF cand = <<>> THEN 0 ELSE MinFold(prd.stories, Head(cand), Tail(cand))

-----------------------------------------------------------------------------
(* The scheduler on every small document. *)

SchedStories == {Story("A", p, b) : p \in Priorities, b \in BOOLEAN}

SchedInit ==
    /\ schedDoc \in {Prd(s) : s \in SeqUpTo(SchedStories, MaxStories)}
    /\ schedResult = 0
    /\ schedPc = "input"

CallGetNextStory ==
    /\ schedPc = "input"
    /\ schedResult' = get_next_story(schedDoc)
    /\ schedPc' = "called"
    /\ UNCHANGED schedDoc

-----------------------------------------------------------------------------
(* amp.rs: the session driver. *)

\* AssistantContent
Text(t) == [kind |-> "Text", text |-> t]
ToolUse == [kind |-> "ToolUse", name |-> "bash"]
Blocks == {Text("a"), Text("b"), ToolUse}

\* the items a stream yields: Result<StreamMessage, Error>
System == [type |-> "System"]
Assistant(content) == [type |-> "Assistant", content |-> content]
ResultMsg(is_error, error) == [type |-> "Result", is_error |-> is_error, error |-> error]
Other == [type |-> "Other"]
StreamError == [type |-> "StreamError"]

StreamItems ==
    {System, Other, StreamError,
     ResultMsg(FALSE, None), ResultMsg(TRUE, None), ResultMsg(TRUE, Some("boom"))}
    \cup {Assistant(c) : c \in SeqUpTo(Blocks, MaxContent)}

\* the error of `anyhow::bail!("Amp error: {}", ...)`
AmpError(msg) == <<"Amp error: ", msg>>
\* the error of `cwd.canonicalize()?`
CanonicalizeError == <<"No such file or directory">>

\* a slip: the tool's name pushed onto the text as well
PushBlockWithTools(out, block) ==
    IF block.kind = "Text" THEN Append(out, block.text) ELSE Append(out, block.name)

\* one arm of `match content`: a Text block is pushed onto output_text
PushBlock(out, block) ==
    IF block.kind = "Text" THEN Append(out, block.text) ELSE out

\* `for content in &msg.message.content`
RECURSIVE PushContent(_, _)
PushContent(out, content) ==
    IF content = <<>> THEN out
    ELSE PushContent(PushBlock(out, Head(content)), Tail(content))

\* a slip: the transport error propagated with `?` instead of being logged
OnItemAbortOnStreamError(out, item) ==
    CASE item.type = "Assistant" ->
            [bail |-> FALSE, out |-> PushContent(out, item.content)]
      [] item.type = "Result" /\ item.is_error ->
            [bail |-> TRUE, out |-> out, err |-> AmpError(UnwrapOrDefault(item.error))]
      [] item.type = "StreamError" ->
            [bail |-> TRUE, out |-> out, err |-> <<"stream error">>]
      [] OTHER -> [bail |-> FALSE, out |-> out]

\* a slip: the text seen so far handed back with the failure's verdict lost
OnItemIgnoreIsError(out, item) ==
    CASE item.type = "Assistant" ->
            [bail |-> FALSE, out |-> PushContent(out, item.content)]
      [] OTHER -> [bail |-> FALSE, out |-> out]

\* the body of `while let Some(result) = stream.next().await`: one item
OnItem(out, item) ==
    CASE item.type = "Assistant" ->
            [bail |-> FALSE, out |-> PushContent(out, item.content)]
      [] item.type = "Result" /\ item.is_error ->
            [bail |-> TRUE, out |-> out, err |-> AmpError(UnwrapOrDefault(item.error))]
      [] OTHER -> [bail |-> FALSE, out |-> out]

\* the while loop over a whole stream
RECURSIVE Drain(_, _)
Drain(out, stream) ==
    IF stream = <<>> THEN Ok(out)
    ELSE LET r == OnItem(out, Head(stream))
         IN IF r.bail THEN Err(r.err) ELSE Drain(r.out, Tail(stream))

\* run_iteration, given what canonicalize does and what the stream delivers
run_iteration(resolvable, stream) ==
    IF ~resolvable THEN Err(CanonicalizeError) ELSE Drain(<<>>, stream)

-----------------------------------------------------------------------------
(* One invocation of the driver, item by item. *)

NoResult == [ok |-> FALSE, err |-> <<"pending">>]

DrvInit ==
    /\ drvPc = "idle"
    /\ drvCwdOk \in BOOLEAN
    /\ output_text = <<>>
    /\ delivered = <<>>
    /\ drvResult = NoResult

\* amp.rs 10-18: canonicalize, build the options, open the stream
DrvOpen ==
    /\ drvPc = "idle"
    /\ IF drvCwdOk
       THEN drvPc' = "streaming" /\ UNCHANGED drvResult
       ELSE drvPc' = "returned" /\ drvResult' = Err(CanonicalizeError)
    /\ output_text' = <<>>
    /\ UNCHANGED <<drvCwdOk, delivered>>

\* amp.rs 20-57: stream.next() yields an item and the match handles it
DrvItem ==
    /\ drvPc = "streaming"
    /\ Len(delivered) < MaxStream
    /\ \E item \in StreamItems :
         LET r == OnItem(output_text, item)
         IN /\ delivered' = Append(delivered, item)
            /\ output_text' = r.out
            /\ IF r.bail
               THEN drvPc' = "returned" /\ drvResult' = Err(r.err)
               ELSE UNCHANGED <<drvPc, drvResult>>
    /\ UNCHANGED drvCwdOk

\* amp.rs 20, 59: stream.next() yields None and the function returns Ok
DrvEnd ==
    /\ drvPc = "streaming"
    /\ drvPc' = "returned"
    /\ drvResult' = Ok(output_text)
    /\ UNCHANGED <<drvCwdOk, output_text, delivered>>


-----------------------------------------------------------------------------
(* types.rs validate_prd: the checks a generated document must pass. *)

\* String::is_empty
is_empty(x) == Len(x) = 0

\* a slip: priority 0 let through
CheckStoryAllowZero(story, idx, seen) ==
    IF is_empty(story.id) THEN Err(<<"Story at index has empty ID", idx>>)
    ELSE IF is_empty(story.title)
        THEN Err(<<"Story has empty title", story.id>>)
    ELSE IF is_empty(story.description)
        THEN Err(<<"Story has empty description", story.id>>)
    ELSE IF ~(story.priority >= 0)
        THEN Err(<<"Story has invalid priority", story.id>>)
    ELSE IF is_empty(story.acceptance_criteria)
        THEN Err(<<"Story has no acceptance criteria", story.id>>)
    ELSE IF story.id \in seen THEN Err(<<"Duplicate story ID", story.id>>)
    ELSE Ok(<<>>)

\* the body of the loop over prd.stories: the six ensure! of one story, in
\* order; seen_ids.insert(&story.id) is false when the id is already there
CheckStory(story, idx, seen) ==
    IF is_empty(story.id) THEN Err(<<"Story at index has empty ID", idx>>)
    ELSE IF is_empty(story.title)
        THEN Err(<<"Story has empty title", story.id>>)
    ELSE IF is_empty(story.description)
        THEN Err(<<"Story has empty description", story.id>>)
    ELSE IF ~(story.priority > 0)
        THEN Err(<<"Story has invalid priority", story.id>>)
    ELSE IF is_empty(story.acceptance_criteria)
        THEN Err(<<"Story has no acceptance criteria", story.id>>)
    ELSE IF story.id \in seen THEN Err(<<"Duplicate story ID", story.id>>)
    ELSE Ok(<<>>)

\* for (idx, story) in prd.stories.iter().enumerate(), from the i-th story
\* on; idx counts from 0
RECURSIVE CheckStories(_, _, _)
CheckStories(stories, i, seen) ==
    IF i > Len(stories) THEN Ok(<<>>)
    ELSE LET r == CheckStory(stories[i], i - 1, seen)
         IN IF ~r.ok THEN r
            ELSE CheckStories(stories, i + 1, seen \cup {stories[i].id})

\* a slip: a document without stories let through
validate_prd_allow_empty(prd) ==
    IF is_empty(prd.branch_name) THEN Err(<<"Branch name cannot be empty">>)
    ELSE CheckStories(prd.stories, 1, {})

validate_prd(prd) ==
    IF is_empty(prd.branch_name) THEN Err(<<"Branch name cannot be empty">>)
    ELSE IF is_empty(prd.stories)
        THEN Err(<<"PRD must contain at least one story">>)
    ELSE CheckStories(prd.stories, 1, {})

\* the documents validate_prd is given: strings are sequences of characters
ValStrings == {"", "t"}
ValIds == {"", "A", "B"}
ValPriorities == {-1, 0, 1}
ValStory ==
    [id : ValIds, title : ValStrings, description : ValStrings,
     priority : ValPriorities, passes : {FALSE},
     acceptance_criteria : {<<>>, <<"c">>}]
ValPrds ==
    [branch_name : {"", "x"}, stories : SeqUpTo(ValStory, MaxValStories)]

ValInit == valDoc \in ValPrds /\ valResult = Ok(<<>>) /\ valPc = "input"

CallValidatePrd ==
    /\ valPc = "input"
    /\ valResult' = validate_prd(valDoc)
    /\ valPc' = "called"
    /\ UNCHANGED valDoc

-----------------------------------------------------------------------------
(* The sessions of a command, one after the other. *)

\* run_iteration(..) is called
SessionBegins(n) == n + 1

\* a slip: the session spawned and its end not awaited
SessionEndsNotAwaited(n) == n

\* run_iteration(..).await returns
SessionEnds(n) == n - 1

\* the engine reads or writes the document or the journal while n sessions
\* are active
EngineIo(n) == ioWhileActive' = (ioWhileActive \/ n > 0)

-----------------------------------------------------------------------------
(* The files of a run. *)

\* the file at prd_path: "ok" holds the JSON of prd; "corrupt" is a file that
\* does not parse as a Prd; "missing" is no file
PrdFileOk(prd) == [state |-> "ok", prd |-> prd]
PrdFileCorrupt == [state |-> "corrupt", prd |-> Prd(<<>>)]
PrdFileMissing == [state |-> "missing", prd |-> Prd(<<>>)]

\* a slip: a file that cannot be read or parsed taken for an empty document
load_prd_or_empty(file) ==
    IF file.state = "ok" THEN Ok(file.prd) ELSE Ok(Prd(<<>>))

\* types.rs load_prd: read_to_string, then serde_json::from_str
load_prd(file) ==
    IF file.state = "ok" THEN Ok(file.prd)
    ELSE IF file.state = "missing" THEN Err(<<"Failed to read prd.json">>)
    ELSE Err(<<"Failed to parse prd.json">>)

\* chunks of journal text
Template == [kind |-> "template"]
OldEntry == [kind |-> "old"]
AgentNote == [kind |-> "agent"]
Garbage == [kind |-> "bytes"]
Newline == [kind |-> "newline"]
\* format!("\n## [{timestamp}] Completed: {story_id}\n")
CompletedEntry(id) == [kind |-> "Completed", id |-> id]
\* format!("\n## [{timestamp}] Failed: {story_id}\nError: {e}\n")
FailedEntry(id, e) == [kind |-> "Failed", id |-> id, error |-> e]

\* the file at progress_path: its bytes as chunks, whether they are UTF-8
\* (read_to_string fails on a file that is not), and whether fs::write to
\* the path succeeds
ProgressFile(exists, utf8, content) ==
    [exists |-> exists, utf8 |-> utf8, content |-> content, writable |-> TRUE]
ProgressAbsent == ProgressFile(FALSE, TRUE, <<>>)
\* the same file where fs::write fails: a file that may not be written, or
\* no file and no directory to hold one
Unwritable(file) == [file EXCEPT !.writable = FALSE]

\* prompts.rs load_prompt: the embedded prompt, or the file of --prompt
load_prompt(ok) ==
    IF ok THEN Ok(<<"prompt">>)
    ELSE Err(<<"Failed to read custom prompt file">>)

\* prompts.rs DEFAULT_PROGRESS_TEMPLATE
DEFAULT_PROGRESS_TEMPLATE == <<Template>>

\* prompts.rs load_progress
load_progress(file) ==
    IF file.exists
    THEN IF file.utf8 THEN Ok(file.content)
         ELSE Err(<<"Failed to read progress file">>)
    ELSE Ok(DEFAULT_PROGRESS_TEMPLATE)

\* Result<String>::unwrap_or_default
UnwrapOrDefaultText(r) == IF r.ok THEN r.val ELSE <<>>

\* prompts.rs append_progress: Ok with the file after the call, or the error
\* of fs::write, which leaves the file as it was
append_progress(file, entry) ==
    LET content == UnwrapOrDefaultText(load_progress(file))
    IN IF file.writable
       THEN Ok(ProgressFile(TRUE, TRUE, content \o <<entry, Newline>>))
       ELSE Err(<<"Failed to write progress.txt">>)

\* the document has a story left to do
Pending(file) == file.state = "ok" /\ get_next_story(file.prd) # 0

-----------------------------------------------------------------------------
(* workflows.rs run_command: the execute-tasks loop. *)

RunPriorities == {0, 1}
\* the stories of a run's document carry the ids A, B, C, ... in document order
IdAt(k) == <<"A", "B", "C", "D">>[k]
RunStoriesAt(k) == {Story(IdAt(k), p, b) : p \in RunPriorities, b \in BOOLEAN}
RunStorySeqs ==
    UNION {{s \in [1..n -> UNION {RunStoriesAt(k) : k \in 1..n}] :
              \A k \in 1..n : s[k].id = IdAt(k)} : n \in 0..MaxRunStories}
RunPrds == {Prd(s) : s \in RunStorySeqs}

\* the streams a session of a run may deliver
RunStreams ==
    {<<>>,
     <<Assistant(<<Text("a")>>), ResultMsg(FALSE, None)>>,
     <<StreamError>>,
     <<Assistant(<<Text("a")>>), ResultMsg(TRUE, Some("boom"))>>,
     <<ResultMsg(TRUE, None)>>}

NoStory == ""
NoOutcome == [ok |-> TRUE, err |-> <<>>]
\* what the loop keeps of a driver result: the verdict and the reason
Outcome(r) == IF r.ok THEN [ok |-> TRUE, err |-> <<>>] ELSE [ok |-> FALSE, err |-> r.err]

\* the journal a run may find: none, one with an entry of an earlier run,
\* one that is not UTF-8; each of them writable or not
RunJournals ==
    LET found == {ProgressAbsent, ProgressFile(TRUE, TRUE, <<OldEntry>>),
                  ProgressFile(TRUE, FALSE, <<Garbage>>)}
    IN found \cup {Unwritable(f) : f \in found}

\* A run starts with a document of up to MaxRunStories stories, or none, with
\* any of the journals above, and with a base prompt that loads or does not.
\* Only the agent, during a session, changes the two files behind the loop's
\* back.
LoopInit ==
    /\ pc = "start"
    /\ max_iterations \in 0..MaxIterations
    /\ iteration = 0
    /\ cwdOk \in BOOLEAN
    /\ promptOk \in BOOLEAN
    /\ prdFile \in {PrdFileOk(d) : d \in RunPrds} \cup {PrdFileMissing}
    /\ progressFile \in RunJournals
    /\ initial_prd = Prd(<<>>)
    /\ story_id = NoStory
    /\ progress = <<>>
    /\ runResult = "running"
    /\ invocations = 0
    /\ appends = 0
    /\ docAtStart = prdFile
    /\ lastOutcome = NoOutcome
    /\ allSucceeded = TRUE
    /\ alwaysPending = Pending(prdFile)
    /\ agentWrites = 0

\* the documents a run may be given that validate_prd would not all accept:
\* ids that repeat, priorities of 0 and below, titles and criteria left empty
UncheckedStory ==
    [id : Ids, title : {"", "t"}, description : {"d"},
     priority : {-1, 0, 1}, passes : {FALSE},
     acceptance_criteria : {<<>>, <<"c">>}]
UncheckedPrds == {Prd(st) : st \in SeqUpTo(UncheckedStory, MaxRunStories)}

UncheckedInit ==
    /\ pc = "start"
    /\ max_iterations \in 0..MaxIterations
    /\ iteration = 0
    /\ cwdOk = TRUE
    /\ promptOk = TRUE
    /\ prdFile \in {PrdFileOk(d) : d \in UncheckedPrds}
    /\ progressFile = ProgressAbsent
    /\ initial_prd = Prd(<<>>)
    /\ story_id = NoStory
    /\ progress = <<>>
    /\ runResult = "running"
    /\ invocations = 0
    /\ appends = 0
    /\ docAtStart = prdFile
    /\ lastOutcome = NoOutcome
    /\ allSucceeded = TRUE
    /\ alwaysPending = Pending(prdFile)
    /\ agentWrites = 0

\* run_command returns
Return(result) ==
    /\ pc' = "done"
    /\ runResult' = result

\* workflows.rs 97-99 and print_final_summary: the summary loads the document
FinalSummary ==
    IF load_prd(prdFile).ok THEN Return("ok") ELSE Return("err")

\* workflows.rs 19-43: the paths, the base prompt, the first load_prd
RunStart ==
    /\ pc = "start"
    /\ LET base_prompt == load_prompt(promptOk)
           r == load_prd(prdFile)
       IN IF ~base_prompt.ok
          THEN /\ Return("err")
               /\ UNCHANGED <<initial_prd, iteration>>
          ELSE IF r.ok
          THEN /\ initial_prd' = r.val
               /\ pc' = "loop"
               /\ iteration' = 1
               /\ UNCHANGED runResult
          ELSE /\ Return("err")
               /\ UNCHANGED <<initial_prd, iteration>>
    /\ UNCHANGED <<max_iterations, cwdOk, promptOk, prdFile, progressFile,
                   story_id, progress>>
    /\ UNCHANGED histVars
    /\ EngineIo(active) /\ UNCHANGED active

\* a slip: one iteration more than asked for
InRangeOneMore(i, n) == 1 <= i /\ i <= n + 1

\* workflows.rs 45: `for iteration in 1..=max_iterations`
InRange(i, n) == 1 <= i /\ i <= n

\* a slip: the document validated as plan mode validates it
IterationPrdValidated(file, cached) ==
    IF ~load_prd(file).ok THEN load_prd(file)
    ELSE IF ~validate_prd(load_prd(file).val).ok
        THEN validate_prd(load_prd(file).val)
    ELSE load_prd(file)

\* the document an iteration schedules from, cached: a slip that keeps using
\* the document loaded before the loop
IterationPrdCached(file, cached) == Ok(cached)

\* workflows.rs 46: `let prd = load_prd(&prd_path)?`
IterationPrd(file, cached) == load_prd(file)

\* workflows.rs 45-68: the top of the loop body, up to the call of
\* run_iteration
IterationStart ==
    /\ pc = "loop"
    /\ InRange(iteration, max_iterations)
    /\ docAtStart' = prdFile
    /\ LET r == IterationPrd(prdFile, initial_prd)
           i == get_next_story(r.val)
           j == load_progress(progressFile)
       IN IF ~r.ok
          THEN /\ Return("err")
               /\ UNCHANGED <<story_id, progress, invocations>>
          ELSE IF i = 0
          THEN /\ FinalSummary
               /\ UNCHANGED <<story_id, progress, invocations>>
          ELSE IF ~j.ok
          THEN /\ story_id' = r.val.stories[i].id
               /\ Return("err")
               /\ UNCHANGED <<progress, invocations>>
          ELSE /\ story_id' = r.val.stories[i].id
               /\ progress' = j.val
               /\ pc' = "session"
               /\ invocations' = invocations + 1
               /\ UNCHANGED runResult
    /\ UNCHANGED <<max_iterations, iteration, cwdOk, promptOk, prdFile,
                   progressFile, initial_prd>>
    /\ UNCHANGED <<appends, lastOutcome, allSucceeded, alwaysPending, agentWrites>>
    /\ EngineIo(active)
    /\ active' = IF pc' = "session" THEN SessionBegins(active) ELSE active

\* the edits the agent may make to the document while its session runs
PrdEdits(file) ==
    {PrdFileCorrupt}
    \cup (IF file.state # "ok" THEN {}
          ELSE LET st == file.prd.stories
               IN {PrdFileOk(Prd([st EXCEPT ![k].passes = TRUE])) : k \in 1..Len(st)}
                  \cup {PrdFileOk(Prd([st EXCEPT ![k].priority = p])) :
                          k \in 1..Len(st), p \in RunPriorities}
                  \cup (IF Len(st) >= MaxRunStories THEN {}
                        ELSE {PrdFileOk(Prd(Append(st, s))) :
                                s \in RunStoriesAt(Len(st) + 1)}))

\* amp.rs 12-18: the agent runs with dangerously_allow_all and edits prd.json
AgentEditsPrd ==
    /\ pc = "session"
    /\ cwdOk
    /\ agentWrites < MaxAgentWrites
    /\ \E f \in PrdEdits(prdFile) \ {prdFile} :
         /\ prdFile' = f
         /\ alwaysPending' = (alwaysPending /\ Pending(f))
    /\ agentWrites' = agentWrites + 1
    /\ UNCHANGED <<pc, max_iterations, iteration, cwdOk, promptOk, progressFile,
                   initial_prd, story_id, progress, runResult>>
    /\ UNCHANGED <<invocations, appends, docAtStart, lastOutcome, allSucceeded>>
    /\ UNCHANGED seqVars

\* what the agent may append to the journal in one write: its learnings,
\* bytes that are not UTF-8, or learnings with such bytes in them
AgentTexts == {<<AgentNote>>, <<Garbage>>, <<AgentNote, Garbage>>}
IsUtf8(text) == \A i \in 1..Len(text) : text[i] # Garbage

\* amp.rs 12-18: the agent appends to progress.txt, where the file can be
\* written
AgentWritesProgress ==
    /\ pc = "session"
    /\ cwdOk
    /\ agentWrites < MaxAgentWrites
    /\ progressFile.writable
    /\ \E c \in AgentTexts :
         progressFile' = ProgressFile(TRUE, progressFile.utf8 /\ IsUtf8(c),
                                      progressFile.content \o c)
    /\ agentWrites' = agentWrites + 1
    /\ UNCHANGED <<pc, max_iterations, iteration, cwdOk, promptOk, prdFile,
                   initial_prd, story_id, progress, runResult>>
    /\ UNCHANGED <<invocations, appends, docAtStart, lastOutcome, allSucceeded,
                   alwaysPending>>
    /\ UNCHANGED seqVars

\* workflows.rs 68-95: the two arms of `match run_iteration(..).await`;
\* the error of append_progress is propagated out of run_command
AfterSession(r) ==
    IF r.ok
    THEN LET a == append_progress(progressFile, CompletedEntry(story_id))
         IN IF ~a.ok
            THEN /\ Return("err")
                 /\ UNCHANGED <<progressFile, appends, iteration>>
            ELSE /\ progressFile' = a.val
                 /\ appends' = appends + 1
                 /\ IF load_prd(prdFile).ok
                    THEN /\ pc' = "loop" /\ iteration' = iteration + 1
                         /\ UNCHANGED runResult
                    ELSE Return("err") /\ UNCHANGED iteration
    ELSE LET a == append_progress(progressFile, FailedEntry(story_id, r.err))
         IN IF ~a.ok
            THEN /\ Return("err")
                 /\ UNCHANGED <<progressFile, appends, iteration>>
            ELSE /\ progressFile' = a.val
                 /\ appends' = appends + 1
                 /\ pc' = "loop" /\ iteration' = iteration + 1
                 /\ UNCHANGED runResult

\* a slip: the story of a session that succeeded marked done by the loop
DocumentMarkedDone(file, r, id) ==
    IF r.ok /\ file.state = "ok"
    THEN PrdFileOk(Prd([i \in 1..Len(file.prd.stories) |->
             IF file.prd.stories[i].id = id
             THEN [file.prd.stories[i] EXCEPT !.passes = TRUE]
             ELSE file.prd.stories[i]]))
    ELSE file

\* workflows.rs 68-95: neither arm of the match writes prd.json (save_prd is
\* called from plan mode only); the file stays as the session left it
DocumentAfterSession(file, r, id) == file

\* workflows.rs 68-95: run_iteration returns and the loop records the outcome
SessionReturns ==
    /\ pc = "session"
    /\ \E stream \in RunStreams :
         LET r == run_iteration(cwdOk, stream)
         IN /\ AfterSession(r)
            /\ lastOutcome' = Outcome(r)
            /\ allSucceeded' = (allSucceeded /\ r.ok)
            /\ prdFile' = DocumentAfterSession(prdFile, r, story_id)
    /\ UNCHANGED <<max_iterations, cwdOk, promptOk, initial_prd, story_id,
                   progress>>
    /\ UNCHANGED <<invocations, docAtStart, alwaysPending, agentWrites>>
    /\ active' = SessionEnds(active)
    /\ EngineIo(SessionEnds(active))

\* workflows.rs 45, 97-100: the range is exhausted
LoopExhausted ==
    /\ pc = "loop"
    /\ ~InRange(iteration, max_iterations)
    /\ FinalSummary
    /\ UNCHANGED <<max_iterations, iteration, cwdOk, promptOk, prdFile,
                   progressFile, initial_prd, story_id, progress>>
    /\ UNCHANGED histVars
    /\ EngineIo(active) /\ UNCHANGED active

-----------------------------------------------------------------------------
(* prompts.rs clean_json_response: the structured extractor.                *)
(* A text is a sequence of characters; the three backticks of a fence       *)
(* marker are one element, so backticks occur in threes only.               *)

\* the three backticks that open or close a fenced block
Fence == "[fence]"
Chars == {Fence, "{", "}", "x", " ", "\n"}
IsWhitespace(c) == c \in {" ", "\n"}

\* a panic of the thread (a slice index out of order)
Panic == [ok |-> FALSE, panic |-> TRUE]
IsErr(r) == ~r.ok /\ "err" \in DOMAIN r
IsPanic(r) == ~r.ok /\ "panic" \in DOMAIN r

\* str::trim
RECURSIVE trim_start(_)
trim_start(t) ==
    IF t # <<>> /\ IsWhitespace(Head(t)) THEN trim_start(Tail(t)) ELSE t
RECURSIVE trim_end(_)
trim_end(t) ==
    IF t # <<>> /\ IsWhitespace(t[Len(t)]) THEN trim_end(SubSeq(t, 1, Len(t) - 1))
    ELSE t
trim(t) == trim_end(trim_start(t))

\* str::starts_with of the fence marker
starts_with_fence(t) == t # <<>> /\ Head(t) = Fence

\* str::lines: the pieces between line feeds, a last empty piece left out
RECURSIVE SplitLines(_, _)
SplitLines(t, cur) ==
    IF t = <<>> THEN (IF cur = <<>> THEN <<>> ELSE <<cur>>)
    ELSE IF Head(t) = "\n" THEN <<cur>> \o SplitLines(Tail(t), <<>>)
    ELSE SplitLines(Tail(t), Append(cur, Head(t)))
lines(t) == SplitLines(t, <<>>)

\* [&str]::join("\n")
RECURSIVE join(_)
join(ls) ==
    IF ls = <<>> THEN <<>>
    ELSE IF Len(ls) = 1 THEN ls[1]
    ELSE ls[1] \o <<"\n">> \o join(Tail(ls))

\* a slip: `>=` for `>`, two lines stripped to nothing
without_fences_two_lines(trimmed) ==
    IF starts_with_fence(trimmed)
    THEN LET ls == lines(trimmed)
         IN IF Len(ls) >= 2 THEN join(SubSeq(ls, 2, Len(ls) - 1)) ELSE trimmed
    ELSE trimmed

\* prompts.rs 175-184: `let without_fences = ...`
without_fences(trimmed) ==
    IF starts_with_fence(trimmed)
    THEN LET ls == lines(trimmed)
         IN IF Len(ls) > 2 THEN join(SubSeq(ls, 2, Len(ls) - 1)) ELSE trimmed
    ELSE trimmed

\* str::find and str::rfind of one character: a position from 1, 0 for None
find(t, c) ==
    IF \E i \in 1..Len(t) : t[i] = c
    THEN CHOOSE i \in 1..Len(t) : t[i] = c /\ \A j \in 1..(i - 1) : t[j] # c
    ELSE 0
rfind(t, c) ==
    IF \E i \in 1..Len(t) : t[i] = c
    THEN CHOOSE i \in 1..Len(t) : t[i] = c /\ \A j \in (i + 1)..Len(t) : t[j] # c
    ELSE 0

\* `&t[start..=end]`: the range start..end+1, which panics when it starts
\* after it ends
slice_inclusive(t, start, end) ==
    IF start > end + 1 THEN Panic ELSE Ok(SubSeq(t, start, end))

\* prompts.rs 186-194: the boundaries and the slice
find_boundaries(w) ==
    LET start == find(w, "{")
        end == rfind(w, "}")
    IN IF start = 0 THEN Err(<<"No opening brace found in response">>)
       ELSE IF end = 0 THEN Err(<<"No closing brace found in response">>)
       ELSE slice_inclusive(w, start, end)

\* prompts.rs clean_json_response
clean_json_response(response) == find_boundaries(without_fences(trim(response)))

ExInit ==
    /\ exInput \in SeqUpTo(Chars, MaxText)
    /\ exSearched = <<>>
    /\ exResult = Panic
    /\ exPc = "input"

CallCleanJsonResponse ==
    /\ exPc = "input"
    /\ exSearched' = without_fences(trim(exInput))
    /\ exResult' = clean_json_response(exInput)
    /\ exPc' = "called"
    /\ UNCHANGED exInput

-----------------------------------------------------------------------------
(* types.rs Prd, Story: what serde_json::from_str makes of a JSON object.  *)
(* A JSON object is a record of Option values, one per key: None for a     *)
(* key the object does not have.  "extra" stands for any key the structs   *)
(* do not name.  Every value present has the JSON type of its field.       *)

JsonStories ==
    [id : {None, Some("A"), Some("B")},
     title : {None, Some("t")},
     description : {None, Some("d")},
     priority : {None, Some(1)},
     passes : {None, Some(TRUE)},
     acceptance_criteria : {None, Some(<<"c">>)},
     extra : {None, Some("e")}]

JsonCandidates ==
    [branchName : {None, Some("x")},
     stories : {None} \cup {Some(l) : l \in SeqUpTo(JsonStories, MaxJsonStories)},
     extra : {None, Some("e")}]

\* {}
EmptyObject == [branchName |-> None, stories |-> None, extra |-> None]

\* #[serde(default)] on an i32, a bool, a Vec<String>
DefaultPriority == 0
DefaultPasses == FALSE
DefaultCriteria == <<>>

\* Option::unwrap_or for a field with #[serde(default)]
OrDefault(opt, d) == IF opt.some THEN opt.val ELSE d

\* a slip: the default priority 1
StoryFromJsonDefaultOne(o) ==
    IF ~o.id.some \/ ~o.title.some \/ ~o.description.some
    THEN Err(<<"missing field">>)
    ELSE Ok([id |-> o.id.val, title |-> o.title.val,
             description |-> o.description.val,
             priority |-> OrDefault(o.priority, 1),
             passes |-> OrDefault(o.passes, DefaultPasses),
             acceptance_criteria |->
                 OrDefault(o.acceptance_criteria, DefaultCriteria)])

\* #[derive(Deserialize)] struct Story: id, title and description are
\* required, the other three default, a key the struct does not name is
\* skipped (the struct has no deny_unknown_fields)
StoryFromJson(o) ==
    IF ~o.id.some \/ ~o.title.some \/ ~o.description.some
    THEN Err(<<"missing field">>)
    ELSE Ok([id |-> o.id.val, title |-> o.title.val,
             description |-> o.description.val,
             priority |-> OrDefault(o.priority, DefaultPriority),
             passes |-> OrDefault(o.passes, DefaultPasses),
             acceptance_criteria |->
                 OrDefault(o.acceptance_criteria, DefaultCriteria)])

\* Vec<Story>: the first element that fails to parse fails the whole
StoriesFromJson(l) ==
    IF \E i \in 1..Len(l) : ~StoryFromJson(l[i]).ok
    THEN Err(<<"missing field">>)
    ELSE Ok([i \in 1..Len(l) |-> StoryFromJson(l[i]).val])

\* #[derive(Deserialize)] struct Prd: both fields required, other keys
\* skipped
PrdFromJson(o) ==
    IF ~o.branchName.some \/ ~o.stories.some THEN Err(<<"missing field">>)
    ELSE LET ss == StoriesFromJson(o.stories.val)
         IN IF ~ss.ok THEN ss
            ELSE Ok([branch_name |-> o.branchName.val, stories |-> ss.val])

-----------------------------------------------------------------------------
(* types.rs save_prd, load_prd: a document written and read back. *)

\* a slip: the criteria written under a key of another spelling, one the
\* struct does not name when it reads
StoryToJsonRenamed(t) ==
    [id |-> Some(t.id), title |-> Some(t.title),
     description |-> Some(t.description), priority |-> Some(t.priority),
     passes |-> Some(t.passes), acceptance_criteria |-> None,
     extra |-> Some(t.acceptance_criteria)]

\* #[derive(Serialize)] struct Story: every field is written, under the
\* field's name
StoryToJson(t) ==
    [id |-> Some(t.id), title |-> Some(t.title),
     description |-> Some(t.description), priority |-> Some(t.priority),
     passes |-> Some(t.passes),
     acceptance_criteria |-> Some(t.acceptance_criteria), extra |-> None]

\* #[derive(Serialize)] struct Prd: branch_name is written as branchName,
\* the stories in their order
PrdToJson(d) ==
    [branchName |-> Some(d.branch_name),
     stories |-> Some([i \in 1..Len(d.stories) |-> StoryToJson(d.stories[i])]),
     extra |-> None]

\* types.rs save_prd: the JSON the file holds after the call (fs::write
\* succeeds)
save_prd(d) == PrdToJson(d)

\* types.rs load_prd of a file that holds the JSON object o
LoadJson(o) ==
    IF PrdFromJson(o).ok THEN PrdFromJson(o)
    ELSE Err(<<"Failed to parse prd.json">>)

NotLoaded == Err(<<"not loaded">>)

\* the documents save_prd is given
SavedStory ==
    [id : {"A", "B"}, title : {"t"}, description : {"d"},
     priority : {0, 1, 2}, passes : BOOLEAN,
     acceptance_criteria : {<<>>, <<"c">>}]
SavedPrds ==
    [branch_name : {"x"}, stories : SeqUpTo(SavedStory, MaxSavedStories)]

RtInit ==
    /\ rtDoc \in SavedPrds
    /\ rtFile = EmptyObject /\ rtLoaded = NotLoaded /\ rtPc = "input"

CallSavePrd ==
    /\ rtPc = "input"
    /\ rtFile' = save_prd(rtDoc)
    /\ rtPc' = "saved"
    /\ UNCHANGED <<rtDoc, rtLoaded>>

CallLoadPrd ==
    /\ rtPc = "saved"
    /\ rtLoaded' = LoadJson(rtFile)
    /\ rtPc' = "loaded"
    /\ UNCHANGED <<rtDoc, rtFile>>

-----------------------------------------------------------------------------
(* workflows.rs run_plan_command: plan mode. *)

\* the file at output_path: exists is what path.exists() answers, writable
\* whether fs::write to the path succeeds
FileAbsent == [exists |-> FALSE, writable |-> TRUE]
OldFile == [exists |-> TRUE, by |-> "before", writable |-> TRUE]
AgentFile == [exists |-> TRUE, by |-> "agent", writable |-> TRUE]
\* a directory at output_path: path.exists() holds, fs::write fails
Directory == [exists |-> TRUE, by |-> "dir", writable |-> FALSE]
\* no file at output_path and no directory to hold one: path.exists() is
\* false, fs::write fails
NoParent == [exists |-> FALSE, writable |-> FALSE]
\* what save_prd writes
SavedFile(d) ==
    [exists |-> TRUE, by |-> "save_prd", writable |-> TRUE, content |-> d]

\* a slip: the check left out
check_output_file_unchecked(file, f) == Ok(<<>>)

\* types.rs check_output_file
check_output_file(file, f) ==
    IF file.exists /\ ~f
    THEN Err(<<"Output file validation failed">>)
    ELSE Ok(<<>>)

\* what the extraction session may answer.  "x" between braces stands for
\* the members of a JSON object, elsewhere it is a letter of prose.
PlanResponses ==
    { <<"x", " ", "{", "x", "}", "\n">>,
      <<Fence, "\n", "{", "x", "}", "\n", Fence>>,
      <<"{", "}">>,
      <<"{", "x", "}", "}">>,
      <<"x">>,
      <<"}", "{">>,
      <<"}", " ", "{">> }

\* serde_json::from_str, the syntax: a cleaned text is JSON when it is an
\* object around its members, or the empty object
ObjectWithMembers == <<"{", "x", "}">>
ObjectWithout == <<"{", "}">>
IsJson(cleaned) == cleaned \in {ObjectWithMembers, ObjectWithout}

\* serde_json::from_str::<Prd>(&cleaned), c being what the members say
from_str(cleaned, c) ==
    IF ~IsJson(cleaned) THEN Err(<<"Failed to parse generated PRD JSON">>)
    ELSE IF ~PrdFromJson(c).ok
        THEN Err(<<"Failed to parse generated PRD JSON">>)
    ELSE PrdFromJson(c)

\* what io::stdin().read_line may put into input
ConfirmInputs ==
    { <<"y", "\n">>, <<"Y", "\n">>, <<" ", "y", " ", "\n">>, <<"y">>,
      <<"n", "\n">>, <<"y", "e", "s", "\n">>, <<"y", " ", "y", "\n">>,
      <<"\n">>, <<>> }

\* str::to_lowercase
to_lowercase(t) == [i \in 1..Len(t) |-> IF t[i] = "Y" THEN "y" ELSE t[i]]

\* a slip: the answer compared as typed
AffirmativeExact(line) == line = <<"y">>

\* input.trim().to_lowercase() != "y", negated
Affirmative(line) == to_lowercase(trim(line)) = <<"y">>

\* the result a session of run_iteration may return to plan mode
PlanningOutcomes == {Ok(<<"conversation">>), Err(<<"Amp error">>)}
ExtractionOutcomes ==
    {Ok(t) : t \in PlanResponses} \cup {Err(<<"Amp error">>)}

PlanInit ==
    /\ planPc = "start"
    /\ force \in BOOLEAN
    /\ outFile \in {FileAbsent, OldFile, Directory, NoParent}
    /\ json_response = <<>> /\ candidate = EmptyObject /\ planPrd = Prd(<<>>)
    /\ input = <<>> /\ planResult = "running" /\ planInvocations = 0
    /\ planWrites = 0 /\ prompted = FALSE /\ answered = FALSE
    /\ sessions = <<>>

\* return from run_plan_command
PlanReturn(result) == planPc' = "done" /\ planResult' = result

\* check_output_file, then the planning session is started
PlanStart ==
    /\ planPc = "start"
    /\ IF check_output_file(outFile, force).ok
       THEN /\ planPc' = "planning"
            /\ planInvocations' = planInvocations + 1
            /\ UNCHANGED planResult
       ELSE /\ PlanReturn("err")
            /\ UNCHANGED planInvocations
    /\ UNCHANGED <<force, outFile, json_response, candidate, planPrd, input,
                   planWrites, prompted, answered, sessions>>
    /\ EngineIo(active)
    /\ active' = IF planPc' = "planning" THEN SessionBegins(active) ELSE active

\* the agent, which runs with unrestricted execution, writes a file at
\* output_path during a session
AgentWritesOutput ==
    /\ planPc \in {"planning", "extracting"}
    /\ outFile # AgentFile
    /\ outFile' = AgentFile
    /\ UNCHANGED <<planPc, force, json_response, candidate, planPrd, input,
                   planResult, planInvocations, planWrites, prompted,
                   answered, sessions>>
    /\ UNCHANGED seqVars

\* a slip: the planning session's error not propagated
PlanningFailedNever(r) == FALSE

\* run_iteration(..).await.context("Planning session failed")?
PlanningFailed(r) == ~r.ok

\* the planning session returns; on Ok the extraction session is started
PlanningReturns ==
    /\ planPc = "planning"
    /\ \E r \in PlanningOutcomes :
          /\ sessions' = Append(sessions, r.ok)
          /\ IF PlanningFailed(r)
             THEN /\ PlanReturn("err")
                  /\ UNCHANGED planInvocations
             ELSE /\ planPc' = "extracting"
                  /\ planInvocations' = planInvocations + 1
                  /\ UNCHANGED planResult
    /\ UNCHANGED <<force, outFile, json_response, candidate, planPrd, input,
                   planWrites, prompted, answered>>
    /\ active' = IF planPc' = "extracting"
                 THEN SessionBegins(SessionEnds(active))
                 ELSE SessionEnds(active)
    /\ UNCHANGED ioWhileActive

\* the members of the object in a response, when it has one
Denotes(text, c) ==
    LET cleaned == clean_json_response(text)
    IN IF cleaned.ok /\ cleaned.val = ObjectWithMembers
       THEN c \in JsonCandidates \ {EmptyObject}
       ELSE c = EmptyObject

\* the extraction session returns; the response is cleaned, parsed and
\* validated, the summary and the prompt are shown
ExtractionReturns ==
    /\ planPc = "extracting"
    /\ \E r \in ExtractionOutcomes :
          /\ sessions' = Append(sessions, r.ok)
          /\ IF ~r.ok
             THEN /\ PlanReturn("err")
                  /\ UNCHANGED <<json_response, candidate, planPrd, prompted>>
             ELSE \E c \in JsonCandidates :
               /\ Denotes(r.val, c)
               /\ json_response' = r.val
               /\ candidate' = c
               /\ LET cleaned == clean_json_response(r.val)
                  IN IF IsPanic(cleaned)
                     THEN PlanReturn("panic") /\ UNCHANGED <<planPrd, prompted>>
                     ELSE IF ~cleaned.ok
                     THEN PlanReturn("err") /\ UNCHANGED <<planPrd, prompted>>
                     ELSE LET parsed == from_str(cleaned.val, c)
                          IN IF ~parsed.ok
                             THEN PlanReturn("err") /\ UNCHANGED <<planPrd, prompted>>
                             ELSE IF ~validate_prd(parsed.val).ok
                             THEN /\ PlanReturn("err")
                                  /\ planPrd' = parsed.val
                                  /\ UNCHANGED prompted
                             ELSE /\ planPc' = "confirm"
                                  /\ planPrd' = parsed.val
                                  /\ prompted' = TRUE
                                  /\ UNCHANGED planResult
    /\ UNCHANGED <<force, outFile, input, planInvocations, planWrites,
                   answered>>
    /\ active' = SessionEnds(active)
    /\ UNCHANGED ioWhileActive

\* what io::stdin().read_line(&mut input) may return: a line, or the error
\* of a line that is not UTF-8, which leaves input as it was
ReadOutcomes ==
    {Ok(line) : line \in ConfirmInputs}
        \cup {Err(<<"stream did not contain valid UTF-8">>)}

\* save_prd(&output_path, &prd): fs::write replaces a file or creates one,
\* and fails on a directory and where there is no directory to hold the file
fs_write(file, d) ==
    IF ~file.writable
    THEN Err(<<"Failed to save PRD", "Failed to write prd.json">>)
    ELSE Ok(SavedFile(d))

\* read_line returns; its error is propagated; save_prd on the affirmative
\* and its error propagated, else a warning.  (io::stdout().flush() before
\* it has nothing to flush, the prompt being written to stderr.)
Confirm ==
    /\ planPc = "confirm"
    /\ \E r \in ReadOutcomes :
          IF ~r.ok
          THEN /\ PlanReturn("err")
               /\ UNCHANGED <<input, answered, outFile, planWrites,
                              ioWhileActive>>
          ELSE /\ input' = r.val
               /\ answered' = TRUE
               /\ IF ~Affirmative(r.val)
                  THEN /\ PlanReturn("ok")
                       /\ UNCHANGED <<outFile, planWrites, ioWhileActive>>
                  ELSE /\ EngineIo(active)
                       /\ IF fs_write(outFile, planPrd).ok
                          THEN /\ outFile' = fs_write(outFile, planPrd).val
                               /\ planWrites' = planWrites + 1
                               /\ PlanReturn("ok")
                          ELSE /\ PlanReturn("err")
                               /\ UNCHANGED <<outFile, planWrites>>
    /\ UNCHANGED <<force, json_response, candidate, planPrd, planInvocations,
                   prompted, sessions>>
    /\ UNCHANGED active

-----------------------------------------------------------------------------
(* The specifications. *)

\* the parts of the state a specification leaves alone
SchedIdle == schedDoc = Prd(<<>>) /\ schedResult = 0 /\ schedPc = "input"
DrvIdle ==
    /\ drvPc = "idle" /\ drvCwdOk = TRUE /\ output_text = <<>>
    /\ delivered = <<>> /\ drvResult = NoResult
LoopIdle ==
    /\ pc = "start" /\ max_iterations = 0 /\ iteration = 0 /\ cwdOk = TRUE
    /\ promptOk = TRUE
    /\ prdFile = PrdFileMissing /\ progressFile = ProgressAbsent
    /\ initial_prd = Prd(<<>>) /\ story_id = NoStory /\ progress = <<>>
    /\ runResult = "running" /\ invocations = 0 /\ appends = 0
    /\ docAtStart = PrdFileMissing /\ lastOutcome = NoOutcome
    /\ allSucceeded = TRUE /\ alwaysPending = FALSE /\ agentWrites = 0

ExIdle == exInput = <<>> /\ exSearched = <<>> /\ exResult = Panic /\ exPc = "input"
ValIdle == valDoc = Prd(<<>>) /\ valResult = Ok(<<>>) /\ valPc = "input"
\* no session has begun
SeqIdle == active = 0 /\ ioWhileActive = FALSE
RtIdle ==
    /\ rtDoc = Prd(<<>>) /\ rtFile = EmptyObject /\ rtLoaded = NotLoaded
    /\ rtPc = "input"
PlanIdle ==
    /\ planPc = "start" /\ force = FALSE /\ outFile = FileAbsent
    /\ json_response = <<>> /\ candidate = EmptyObject /\ planPrd = Prd(<<>>)
    /\ input = <<>> /\ planResult = "running" /\ planInvocations = 0
    /\ planWrites = 0 /\ prompted = FALSE /\ answered = FALSE
    /\ sessions = <<>>

\* what the execute-tasks run leaves alone
RunRest == <<schedVars, drvVars, exVars, valVars, planVars, rtVars>>

\* the execute-tasks run
Init ==
    LoopInit /\ SchedIdle /\ DrvIdle /\ ExIdle /\ ValIdle /\ PlanIdle
    /\ RtIdle /\ SeqIdle
Next ==
    \/ (RunStart /\ UNCHANGED RunRest)
    \/ (IterationStart /\ UNCHANGED RunRest)
    \/ (AgentEditsPrd /\ UNCHANGED RunRest)
    \/ (AgentWritesProgress /\ UNCHANGED RunRest)
    \/ (SessionReturns /\ UNCHANGED RunRest)
    \/ (LoopExhausted /\ UNCHANGED RunRest)
Spec == Init /\ [][Next]_vars

\* the run with its progress assumed: the engine takes its next step, and a
\* session returns (its stream ends); nothing is assumed of the agent
EngineStep == (RunStart \/ IterationStart \/ LoopExhausted) /\ UNCHANGED RunRest
SessionStep == SessionReturns /\ UNCHANGED RunRest
SpecLive == Init /\ [][Next]_vars /\ WF_vars(EngineStep) /\ WF_vars(SessionStep)

\* get_next_story on every small document
InitSched ==
    SchedInit /\ DrvIdle /\ LoopIdle /\ ExIdle /\ ValIdle /\ PlanIdle
    /\ RtIdle /\ SeqIdle
NextSched == CallGetNextStory /\ UNCHANGED <<drvVars, loopVars, histVars, exVars, valVars, planVars,
                                         rtVars, seqVars>>
SpecSched == InitSched /\ [][NextSched]_vars

\* one invocation of run_iteration
InitDriver ==
    DrvInit /\ SchedIdle /\ LoopIdle /\ ExIdle /\ ValIdle /\ PlanIdle
    /\ RtIdle /\ SeqIdle
NextDriver ==
    \/ (DrvOpen /\ UNCHANGED <<schedVars, loopVars, histVars, exVars, valVars,
                             planVars, rtVars, seqVars>>)
    \/ (DrvItem /\ UNCHANGED <<schedVars, loopVars, histVars, exVars, valVars,
                             planVars, rtVars, seqVars>>)
    \/ (DrvEnd /\ UNCHANGED <<schedVars, loopVars, histVars, exVars, valVars,
                            planVars, rtVars, seqVars>>)
SpecDriver == InitDriver /\ [][NextDriver]_vars

\* clean_json_response on every short response
InitExtract ==
    ExInit /\ SchedIdle /\ DrvIdle /\ LoopIdle /\ ValIdle /\ PlanIdle
    /\ RtIdle /\ SeqIdle
NextExtract ==
    CallCleanJsonResponse
        /\ UNCHANGED <<schedVars, drvVars, loopVars, histVars, valVars,
                       planVars, rtVars, seqVars>>
SpecExtract == InitExtract /\ [][NextExtract]_vars

\* validate_prd on every small document
InitValidate ==
    ValInit /\ SchedIdle /\ DrvIdle /\ LoopIdle /\ ExIdle /\ PlanIdle
    /\ RtIdle /\ SeqIdle
NextValidate ==
    CallValidatePrd
        /\ UNCHANGED <<schedVars, drvVars, loopVars, histVars, exVars,
                       planVars, rtVars, seqVars>>
SpecValidate == InitValidate /\ [][NextValidate]_vars

\* one plan-mode command
InitPlan ==
    PlanInit /\ SchedIdle /\ DrvIdle /\ LoopIdle /\ ExIdle /\ ValIdle
    /\ RtIdle /\ SeqIdle
PlanRest ==
    <<schedVars, drvVars, loopVars, histVars, exVars, valVars, rtVars>>
NextPlan ==
    \/ (PlanStart /\ UNCHANGED PlanRest)
    \/ (AgentWritesOutput /\ UNCHANGED PlanRest)
    \/ (PlanningReturns /\ UNCHANGED PlanRest)
    \/ (ExtractionReturns /\ UNCHANGED PlanRest)
    \/ (Confirm /\ UNCHANGED PlanRest)
SpecPlan == InitPlan /\ [][NextPlan]_vars

\* save_prd then load_prd on every small document
InitRoundTrip ==
    RtInit /\ SchedIdle /\ DrvIdle /\ LoopIdle /\ ExIdle /\ ValIdle /\ PlanIdle
    /\ SeqIdle
RoundTripRest ==
    <<schedVars, drvVars, loopVars, histVars, exVars, valVars, planVars,
      seqVars>>
NextRoundTrip ==
    \/ (CallSavePrd /\ UNCHANGED RoundTripRest)
    \/ (CallLoadPrd /\ UNCHANGED RoundTripRest)
SpecRoundTrip == InitRoundTrip /\ [][NextRoundTrip]_vars

\* the run on documents that break the Task Document invariants, the agent
\* leaving the files alone
InitUnchecked ==
    UncheckedInit /\ SchedIdle /\ DrvIdle /\ ExIdle /\ ValIdle /\ PlanIdle
    /\ RtIdle /\ SeqIdle
NextUnchecked ==
    \/ (RunStart /\ UNCHANGED RunRest)
    \/ (IterationStart /\ UNCHANGED RunRest)
    \/ (SessionReturns /\ UNCHANGED RunRest)
    \/ (LoopExhausted /\ UNCHANGED RunRest)
SpecUnchecked == InitUnchecked /\ [][NextUnchecked]_vars

\* one command, of either mode: a run command steps while the plan
\* variables are as no plan command left them, and the other way round
Idle == SchedIdle /\ DrvIdle /\ ExIdle /\ ValIdle /\ RtIdle /\ SeqIdle
InitModes ==
    \/ (LoopInit /\ PlanIdle /\ Idle)
    \/ (PlanInit /\ LoopIdle /\ Idle)
NextModes ==
    \/ (Next /\ PlanIdle)
    \/ (NextPlan /\ LoopIdle)
SpecModes == InitModes /\ [][NextModes]_vars

-----------------------------------------------------------------------------
(* Properties of the scheduler. *)

\* the positions of the stories of d that are not done
Todo(d) == {i \in 1..Len(d.stories) : ~d.stories[i].passes}

\* C1: get_next_story returns None iff every story is done; otherwise it
\* returns the story that is not done with the least priority, and among those
\* with that priority the first in document order.
C1_NextStoryIsFirstMinimum ==
    schedPc = "called" =>
        LET st == schedDoc.stories
            r == schedResult
        IN /\ (r = 0) <=> (\A i \in 1..Len(st) : st[i].passes)
           /\ r # 0 =>
                /\ r \in Todo(schedDoc)
                /\ \A j \in Todo(schedDoc) :
                     /\ st[r].priority <= st[j].priority
                     /\ st[j].priority = st[r].priority => r <= j

\* a tie at a priority that is not positive, behind a done story of less
\* priority value and a story of greater value
C1_Witness ==
    /\ schedPc = "called"
    /\ schedResult = 2
    /\ Len(schedDoc.stories) = 3
    /\ schedDoc.stories[1].passes /\ schedDoc.stories[1].priority = -1
    /\ ~schedDoc.stories[2].passes /\ schedDoc.stories[2].priority = 0
    /\ ~schedDoc.stories[3].passes /\ schedDoc.stories[3].priority = 0

-----------------------------------------------------------------------------
(* Properties of the execute-tasks loop. *)

\* the id of the story the scheduler picks from the document in file f
ChoiceId(f) == f.prd.stories[get_next_story(f.prd)].id

\* the journal ends with the entry e and the newline pushed after it
EndsWithEntry(file, e) ==
    LET c == file.content
    IN Len(c) >= 2 /\ c[Len(c) - 1] = e /\ c[Len(c)] = Newline

\* C2, as claimed: when every session succeeds and the persisted document
\* always holds a story that is not done, a finished run has made exactly
\* max_iterations calls of the driver and has returned Ok.
C2_ExhaustionIsNormalEnd ==
    (pc = "done" /\ allSucceeded /\ alwaysPending) =>
        (invocations = max_iterations /\ runResult = "ok")

\* C3: when the document read at the top of the loop body has no story left
\* to do, the run ends there with Ok, with no call of the driver and no
\* append to the journal; nothing happens after the run has ended.
C3_AllDoneEndsAtOnce ==
    [][ /\ (pc = "loop" /\ InRange(iteration, max_iterations)
              /\ prdFile.state = "ok" /\ Todo(prdFile.prd) = {})
           => (/\ pc' = "done" /\ runResult' = "ok"
               /\ invocations' = invocations /\ appends' = appends
               /\ progressFile' = progressFile)
        /\ pc = "done" => UNCHANGED <<invocations, appends, progressFile, runResult>>
      ]_vars

\* the agent marked the last story done, and the next iteration ended the run
C3_Witness ==
    /\ pc = "done" /\ runResult = "ok"
    /\ iteration = 2 /\ InRange(iteration, max_iterations)
    /\ docAtStart.state = "ok" /\ Len(docAtStart.prd.stories) = 2
    /\ Todo(docAtStart.prd) = {}
    /\ invocations = 1 /\ appends = 1

\* C4: the story a session works on is the scheduler's choice on the document
\* as it was persisted when that iteration began.
C4_ChoiceFromFreshRead ==
    pc = "session" =>
        /\ docAtStart.state = "ok"
        /\ get_next_story(docAtStart.prd) # 0
        /\ story_id = ChoiceId(docAtStart)

\* the agent's edit during the first session changed the second one's choice
C4_Witness ==
    /\ pc = "session" /\ iteration = 2
    /\ docAtStart.prd # initial_prd
    /\ get_next_story(initial_prd) # 0
    /\ story_id # initial_prd.stories[get_next_story(initial_prd)].id
    /\ story_id = "B"

\* C5, as claimed: a session that fails in an iteration before the last does
\* not end the run: the loop appends a Failed entry with the story's id and
\* the failure's reason and goes on to the next iteration.
C5_FailureIsRecordedNotFatal ==
    [][ (/\ pc = "session" /\ pc' # "session" /\ ~lastOutcome'.ok
         /\ iteration < max_iterations)
        => (/\ pc' = "loop" /\ runResult' = "running"
            /\ iteration' = iteration + 1
            /\ EndsWithEntry(progressFile',
                             FailedEntry(story_id, lastOutcome'.err)))
      ]_vars

\* C6, as claimed: each iteration that calls the driver appends one entry
\* when the call has returned, Completed or Failed by its verdict, with the
\* id of the story chosen when the iteration began; entries appended and
\* calls of the driver stay equal in number.
C6_OneEntryPerSession ==
    /\ [](appends = IF pc = "session" THEN invocations - 1 ELSE invocations)
    /\ [][ IF pc = "session" /\ pc' # "session"
           THEN /\ appends' = appends + 1
                /\ lastOutcome'.ok =>
                     EndsWithEntry(progressFile', CompletedEntry(ChoiceId(docAtStart)))
                /\ ~lastOutcome'.ok =>
                     EndsWithEntry(progressFile',
                                   FailedEntry(ChoiceId(docAtStart), lastOutcome'.err))
           ELSE appends' = appends
         ]_vars

\* C7, as claimed: every append_progress call leaves what the journal held
\* before it as a prefix of what it holds after it.
C7_AppendKeepsPrefix ==
    [][appends' # appends => IsPrefix(progressFile.content, progressFile'.content)]_vars

-----------------------------------------------------------------------------
(* Properties of the session driver. *)

IsFailure(item) == item.type = "Result" /\ item.is_error

\* the text of the Text blocks of a message's content, in order
RECURSIVE TextOfContent(_)
TextOfContent(content) ==
    IF content = <<>> THEN <<>>
    ELSE (IF Head(content).kind = "Text" THEN <<Head(content).text>> ELSE <<>>)
         \o TextOfContent(Tail(content))

\* the text of the Text blocks of the assistant messages of a stream, in order
RECURSIVE TextOfStream(_)
TextOfStream(items) ==
    IF items = <<>> THEN <<>>
    ELSE (IF Head(items).type = "Assistant" THEN TextOfContent(Head(items).content)
          ELSE <<>>)
         \o TextOfStream(Tail(items))

\* C8: with a working directory that resolves, run_iteration fails iff the
\* stream delivered a Result message with is_error set; the failure carries
\* that message's error, or the empty string when it has none, and none of
\* the text.
C8_FailsIffErrorResult ==
    (drvPc = "returned" /\ drvCwdOk) =>
        /\ ~drvResult.ok <=> (\E i \in 1..Len(delivered) : IsFailure(delivered[i]))
        /\ ~drvResult.ok =>
             LET ev == delivered[Len(delivered)]
             IN /\ IsFailure(ev)
                /\ drvResult.err =
                     <<"Amp error: ", IF ev.error.some THEN ev.error.val ELSE "">>
                /\ DOMAIN drvResult = {"ok", "err"}

\* text, then a failure that names no error
C8_Witness ==
    /\ drvPc = "returned" /\ drvCwdOk
    /\ ~drvResult.ok /\ drvResult.err = <<"Amp error: ", "">>
    /\ output_text = <<"a", "b">>

\* C9: the text a successful run_iteration returns is the text of the Text
\* blocks the stream delivered, in order of arrival, and nothing else.
C9_TextIsConcatenation ==
    (drvPc = "returned" /\ drvResult.ok) => drvResult.val = TextOfStream(delivered)

\* two texts around a tool use and a Result that is no error
C9_Witness ==
    /\ drvPc = "returned" /\ drvResult.ok
    /\ drvResult.val = <<"b", "a">>
    /\ \E i \in 1..Len(delivered) :
         delivered[i].type = "Assistant" /\ ToolUse \in {delivered[i].content[k] :
                                                         k \in 1..Len(delivered[i].content)}
    /\ \E i \in 1..Len(delivered) : delivered[i] = ResultMsg(FALSE, None)

\* C10: a transport error leaves the driver streaming with its text as it
\* was; of a stream that held one, the verdict is a failure only for a Result
\* with is_error, and a success returns all the text, the text that came
\* after the error too.
C10_StreamErrorIsSkipped ==
    /\ []((drvPc = "returned" /\ drvCwdOk
             /\ \E i \in 1..Len(delivered) : delivered[i] = StreamError)
          => /\ drvResult.ok <=> ~\E i \in 1..Len(delivered) : IsFailure(delivered[i])
             /\ drvResult.ok => drvResult.val = TextOfStream(delivered))
    /\ [][ (drvPc = "streaming" /\ delivered' = Append(delivered, StreamError))
           => (drvPc' = "streaming" /\ output_text' = output_text
               /\ drvResult' = drvResult)
         ]_vars

\* a transport error, text after it, and the end of the stream with no Result
C10_Witness ==
    /\ drvPc = "returned" /\ drvResult.ok
    /\ delivered = <<StreamError, Assistant(<<Text("a")>>), StreamError>>
    /\ drvResult.val = <<"a">>

\* a Result message has been consumed and the driver is still streaming
SawResult == \E i \in 1..Len(delivered) : delivered[i].type = "Result"

\* C11, as claimed: once run_iteration has consumed a Result message, no item
\* that arrives later changes the text it returns or makes it fail.
C11_ResultIsTerminal ==
    [][ (drvPc = "streaming" /\ SawResult)
        => (/\ output_text' = output_text
            /\ drvPc' = "returned" => drvResult' = Ok(output_text))
      ]_vars

-----------------------------------------------------------------------------
(* Properties of the structured extractor. *)

\* the positions of t that hold a character of S
Positions(t, S) == {i \in 1..Len(t) : t[i] \in S}
Least(P) == CHOOSE i \in P : \A j \in P : i <= j
Greatest(P) == CHOOSE i \in P : \A j \in P : j <= i

\* t without the whitespace at its two ends
Trimmed(t) ==
    LET P == {i \in 1..Len(t) : t[i] \notin {" ", "\n"}}
    IN IF P = {} THEN <<>> ELSE SubSeq(t, Least(P), Greatest(P))

\* C17, as claimed: clean_json_response returns an error exactly when the
\* text searched lacks an opening or a closing brace, and otherwise returns
\* the text from the first opening brace to the last closing brace, which
\* starts with the one and ends with the other.
C17_ErrorOrBraceSpan ==
    exPc = "called" =>
        LET open == Positions(exSearched, {"{"})
            close == Positions(exSearched, {"}"})
        IN IF open = {} \/ close = {}
           THEN IsErr(exResult)
           ELSE /\ exResult.ok
                /\ exResult.val = SubSeq(exSearched, Least(open), Greatest(close))
                /\ exResult.val # <<>>
                /\ Head(exResult.val) = "{"
                /\ exResult.val[Len(exResult.val)] = "}"

\* C18: clean_json_response drops the first and the last line of the trimmed
\* response exactly when it starts with the fence marker and has more than
\* two lines; any other response is searched as trimmed.  Braces on the two
\* lines dropped do not count.
C18_FenceLinesStripped ==
    exPc = "called" =>
        LET t == Trimmed(exInput)
            nl == Positions(t, {"\n"})
            fenced == t # <<>> /\ t[1] = Fence /\ Cardinality(nl) >= 2
            middle == SubSeq(t, Least(nl) + 1, Greatest(nl) - 1)
        IN /\ exSearched = IF fenced THEN middle ELSE t
           /\ (fenced /\ Positions(middle, {"{"}) = {}) => ~exResult.ok
           /\ (fenced /\ Positions(middle, {"}"}) = {}) => ~exResult.ok

\* a fenced block of three lines, with a brace on its last line
C18_Witness ==
    /\ exPc = "called"
    /\ exInput = <<Fence, "\n", "{", "}", "\n", "}">>
    /\ exSearched = <<"{", "}">>
    /\ exResult = Ok(<<"{", "}">>)

-----------------------------------------------------------------------------
(* Properties of document validation. *)

\* what the Task Document invariants ask of the story at position i of d
StoryValid(d, i) ==
    LET t == d.stories[i]
    IN /\ t.id # "" /\ t.title # "" /\ t.description # ""
       /\ t.priority > 0
       /\ t.acceptance_criteria # <<>>
       /\ \A j \in 1..Len(d.stories) : j # i => d.stories[j].id # t.id

DocValid(d) ==
    /\ d.branch_name # ""
    /\ d.stories # <<>>
    /\ \A i \in 1..Len(d.stories) : StoryValid(d, i)

\* C16: validate_prd accepts a document iff its branch name is non-empty, it
\* has at least one story, and every story has a non-empty id, title and
\* description, a priority above 0, at least one acceptance criterion and an
\* id no other story of the document has.
C16_ValidateAcceptsIffValid ==
    valPc = "called" => (valResult.ok <=> DocValid(valDoc))

\* two stories, each acceptable alone, sharing an id: rejected
C16_Witness ==
    /\ valPc = "called"
    /\ valDoc.branch_name = "x"
    /\ Len(valDoc.stories) = 2
    /\ DocValid([valDoc EXCEPT !.stories = <<valDoc.stories[1]>>])
    /\ DocValid([valDoc EXCEPT !.stories = <<valDoc.stories[2]>>])
    /\ valDoc.stories[1].id = valDoc.stories[2].id
    /\ valResult = Err(<<"Duplicate story ID", valDoc.stories[2].id>>)

-----------------------------------------------------------------------------
(* Properties of plan mode. *)

\* the file at output_path is one that run_plan_command did not write
NotSaved == outFile \in {FileAbsent, OldFile, AgentFile, Directory, NoParent}

\* C12: without the overwrite flag, a command that finds a file at the
\* destination when it starts returns an error at once, no session invoked
\* and the file as it was; with the flag, it goes on to the planning session.
C12_ExistingDestinationFailsFast ==
    [][ (planPc = "start" /\ outFile.exists)
        => IF ~force
           THEN /\ planPc' = "done" /\ planResult' = "err"
                /\ planInvocations' = 0 /\ sessions' = <<>>
                /\ planWrites' = 0 /\ outFile' = outFile
           ELSE /\ planPc' = "planning" /\ planResult' = "running"
                /\ planInvocations' = 1
      ]_vars

C12_Witness ==
    /\ planPc = "done" /\ planResult = "err"
    /\ ~force /\ outFile = OldFile
    /\ planInvocations = 0 /\ planWrites = 0

\* C13: the document is written only when the operator's answer, without
\* the whitespace around it, is y or Y, and then the write is the one of
\* save_prd, which may fail on a destination that cannot be written; on any
\* other answer that was read the file is left alone and the command
\* returns Ok.
C13_WriteOnlyOnAffirmative ==
    /\ planWrites > 0 =>
          /\ planPc = "done" /\ prompted /\ answered
          /\ Trimmed(input) \in {<<"y">>, <<"Y">>}
    /\ (planPc = "done" /\ answered) =>
          IF Trimmed(input) \in {<<"y">>, <<"Y">>}
          THEN \/ /\ planResult = "ok" /\ planWrites = 1
                  /\ outFile = SavedFile(planPrd)
               \/ /\ planResult = "err" /\ planWrites = 0
                  /\ outFile \in {Directory, NoParent}
          ELSE planResult = "ok" /\ planWrites = 0 /\ NotSaved

\* the operator answers yes, spelled out
C13_Witness ==
    /\ planPc = "done" /\ prompted /\ answered
    /\ input = <<"y", "e", "s", "\n">>
    /\ planResult = "ok" /\ planWrites = 0 /\ NotSaved

\* C14: after a failed planning session no extraction session is invoked;
\* after a failed session of either kind the command has returned an error,
\* never prompted and never written; no command invokes more than two
\* sessions.
C14_SessionFailureIsFatal ==
    /\ planInvocations <= 2
    /\ Len(sessions) <= planInvocations
    /\ (\E i \in 1..Len(sessions) : ~sessions[i]) =>
          /\ planPc = "done" /\ planResult = "err"
          /\ ~prompted /\ planWrites = 0 /\ NotSaved
          /\ planInvocations = Len(sessions)
          /\ \A i \in 1..(Len(sessions) - 1) : sessions[i]

\* the planning session failed
C14_Witness ==
    /\ sessions = <<FALSE>>
    /\ planPc = "done" /\ planResult = "err"
    /\ planInvocations = 1 /\ ~prompted /\ planWrites = 0

\* the response held a JSON object that parsed into a document
Parsed ==
    /\ json_response # <<>>
    /\ clean_json_response(json_response).ok
    /\ from_str(clean_json_response(json_response).val, candidate).ok

\* C15: the document save_prd writes, and the one the operator is asked
\* about, meets the Task Document invariants; a parsed document that does
\* not ends the command with an error, before the prompt and any write.
C15_PersistedIsValid ==
    /\ (prompted \/ planWrites > 0) => (Parsed /\ DocValid(planPrd))
    /\ ~NotSaved => (outFile = SavedFile(planPrd) /\ DocValid(outFile.content))
    /\ (Parsed /\ ~DocValid(planPrd)) =>
          /\ planPc = "done" /\ planResult = "err"
          /\ ~prompted /\ planWrites = 0 /\ NotSaved

C15_Witness ==
    /\ planPc = "done" /\ planResult = "ok"
    /\ planWrites = 1 /\ outFile = SavedFile(planPrd)
    /\ DocValid(planPrd)

\* the response held a JSON object with members
HasCandidate ==
    /\ json_response # <<>>
    /\ clean_json_response(json_response).ok
    /\ clean_json_response(json_response).val = ObjectWithMembers

\* the stories of the candidate, none when it has no such key
CandidateStories ==
    IF candidate.stories.some THEN candidate.stories.val ELSE <<>>

UnknownField ==
    \/ candidate.extra.some
    \/ \E i \in 1..Len(CandidateStories) : CandidateStories[i].extra.some

MissingRequired ==
    \/ ~candidate.branchName.some
    \/ ~candidate.stories.some
    \/ \E i \in 1..Len(CandidateStories) :
          \/ ~CandidateStories[i].id.some
          \/ ~CandidateStories[i].title.some
          \/ ~CandidateStories[i].description.some

\* C19, as claimed: a candidate with a key the schema does not have, or
\* without branchName, stories, or a story's id, title or description, fails
\* to parse: the command returns an error and no document comes of it.
C19_UnknownOrMissingFailsParse ==
    (HasCandidate /\ (UnknownField \/ MissingRequired)) =>
        /\ planPc = "done" /\ planResult = "err"
        /\ planPrd = Prd(<<>>) /\ ~prompted /\ planWrites = 0

\* C20: a story of the candidate without priority, passes or
\* acceptance_criteria parses with 0, false and the empty list; a document
\* with a story that had no priority or no acceptance_criteria fails
\* validation, so the command returns an error and writes nothing.
C20_DefaultsThenRejected ==
    (HasCandidate /\ ~MissingRequired) =>
        /\ Len(planPrd.stories) = Len(CandidateStories)
        /\ \A i \in 1..Len(CandidateStories) :
              LET o == CandidateStories[i]
                  t == planPrd.stories[i]
              IN /\ ~o.priority.some => t.priority = 0
                 /\ ~o.passes.some => t.passes = FALSE
                 /\ ~o.acceptance_criteria.some => t.acceptance_criteria = <<>>
                 /\ o.priority.some => t.priority = o.priority.val
                 /\ o.passes.some => t.passes = o.passes.val
                 /\ o.acceptance_criteria.some =>
                       t.acceptance_criteria = o.acceptance_criteria.val
        /\ (\E i \in 1..Len(CandidateStories) :
               \/ ~CandidateStories[i].priority.some
               \/ ~CandidateStories[i].acceptance_criteria.some) =>
              /\ ~validate_prd(planPrd).ok
              /\ planPc = "done" /\ planResult = "err"
              /\ ~prompted /\ planWrites = 0 /\ NotSaved

\* a story with the three required fields and nothing else
C20_Witness ==
    /\ HasCandidate /\ ~MissingRequired
    /\ Len(CandidateStories) = 1
    /\ ~CandidateStories[1].priority.some
    /\ ~CandidateStories[1].passes.some
    /\ ~CandidateStories[1].acceptance_criteria.some
    /\ planPrd.stories[1].priority = 0
    /\ planPrd.stories[1].passes = FALSE
    /\ planPrd.stories[1].acceptance_criteria = <<>>
    /\ planPc = "done" /\ planResult = "err" /\ planWrites = 0

-----------------------------------------------------------------------------
(* Properties of the persisted form. *)

\* C21: load_prd of what save_prd wrote for a valid document returns that
\* document: the same branch name, the same stories in the same order with
\* the same field values.
C21_SaveThenLoadIsIdentity ==
    (rtPc = "loaded" /\ DocValid(rtDoc)) =>
        /\ rtLoaded.ok
        /\ rtLoaded.val.branch_name = rtDoc.branch_name
        /\ Len(rtLoaded.val.stories) = Len(rtDoc.stories)
        /\ \A i \in 1..Len(rtDoc.stories) :
              rtLoaded.val.stories[i] = rtDoc.stories[i]

\* two stories that differ in every field that varies, the second one done
C21_Witness ==
    /\ rtPc = "loaded" /\ DocValid(rtDoc)
    /\ Len(rtDoc.stories) = 2
    /\ rtDoc.stories[1].id = "B" /\ rtDoc.stories[2].id = "A"
    /\ rtDoc.stories[1].priority = 2 /\ rtDoc.stories[2].priority = 1
    /\ rtDoc.stories[2].passes /\ ~rtDoc.stories[1].passes
    /\ rtLoaded = Ok(rtDoc)

-----------------------------------------------------------------------------
(* Properties of the order of events, in both modes. *)

\* C22: in a command of either mode no session begins before the one before
\* it has returned, and the engine reads and writes the document, the
\* journal and the destination only while no session is active.
C22_OneSessionAtATime ==
    /\ active \in {0, 1}
    /\ ~ioWhileActive
    /\ active = 1 <=> (pc = "session" \/ planPc \in {"planning", "extracting"})

\* the second session of a plan command is active, the first has returned
C22_Witness ==
    /\ planPc = "extracting" /\ sessions = <<TRUE>>
    /\ planInvocations = 2 /\ active = 1 /\ ~ioWhileActive

-----------------------------------------------------------------------------
(* Properties of the run as a whole. *)

\* C23: a run whose sessions all return comes to its end, and at no time
\* has it called the driver more often than max_iterations, none at all when
\* max_iterations is 0, whatever the sessions returned and whatever the agent
\* did to the document.
C23_RunTerminatesWithinBudget ==
    /\ [](invocations <= max_iterations)
    /\ <>(pc = "done")

\* the budget used up on a document that still has a story to do, a session
\* failed and the document edited on the way
C23_Witness ==
    /\ pc = "done" /\ max_iterations = MaxIterations
    /\ invocations = max_iterations
    /\ ~allSucceeded /\ agentWrites > 0
    /\ Pending(prdFile)

\* C24: an iteration that finds the document missing or not parseable ends
\* the run with an error there and then: the driver is not called and the
\* journal is not appended to, in that iteration or after it.
C24_UnloadableDocumentAborts ==
    [][ /\ (pc = "loop" /\ InRange(iteration, max_iterations)
            /\ prdFile.state # "ok")
           => (/\ pc' = "done" /\ runResult' = "err"
               /\ invocations' = invocations /\ appends' = appends
               /\ progressFile' = progressFile /\ prdFile' = prdFile)
        /\ pc = "done"
           => (/\ pc' = "done" /\ runResult' = runResult
               /\ invocations' = invocations /\ appends' = appends
               /\ progressFile' = progressFile)
      ]_vars

\* the agent corrupted the document during a first session that failed; the
\* second iteration ended the run
C24_Witness ==
    /\ pc = "done" /\ runResult = "err"
    /\ prdFile = PrdFileCorrupt /\ docAtStart = PrdFileCorrupt
    /\ iteration = 2 /\ InRange(iteration, max_iterations)
    /\ invocations = 1 /\ appends = 1 /\ ~lastOutcome.ok

\* the stories of d still to do
NotDone(d) == {i \in 1..Len(d.stories) : ~d.stories[i].passes}

\* C25: the run command never turns a parseable document down, whatever
\* invariants it breaks, and schedules from it as it stands: the story of an
\* iteration is a story to do of the lowest priority, so one of priority 0
\* or below goes before every story of a priority above 0.
C25_RunDoesNotValidate ==
    /\ runResult # "err"
    /\ pc = "session" =>
          LET d == docAtStart.prd
          IN \E k \in NotDone(d) :
                /\ story_id = d.stories[k].id
                /\ \A j \in NotDone(d) :
                      d.stories[k].priority <= d.stories[j].priority
    /\ (pc = "loop" /\ InRange(iteration, max_iterations)
        /\ NotDone(prdFile.prd) # {}) => ENABLED IterationStart

\* a session on the second of two stories that share an id, the one with a
\* negative priority and no title
C25_Witness ==
    /\ pc = "session"
    /\ ~DocValid(docAtStart.prd)
    /\ Len(docAtStart.prd.stories) = 2
    /\ docAtStart.prd.stories[1].id = docAtStart.prd.stories[2].id
    /\ docAtStart.prd.stories[1].priority = 1
    /\ docAtStart.prd.stories[2].priority = -1
    /\ docAtStart.prd.stories[2].title = ""
    /\ story_id = docAtStart.prd.stories[2].id

\* the journal holds the entry e at the positions
EntriesAt(file, e) == {i \in 1..Len(file.content) : file.content[i] = e}

\* C26: the loop never writes the document: every change of the file is a
\* step of the agent during a session; the step that ends a session leaves
\* the file as it is, so after a session that succeeded on a document the
\* agent did not touch, the next iteration picks the same story again.
C26_OnlyTheAgentWritesTheDocument ==
    [][ /\ prdFile' # prdFile
           => (/\ pc = "session" /\ pc' = "session"
               /\ agentWrites' = agentWrites + 1
               /\ invocations' = invocations /\ appends' = appends)
        /\ (pc = "loop" /\ pc' = "session" /\ iteration >= 2
            /\ lastOutcome.ok /\ prdFile = docAtStart)
           => story_id' = story_id
      ]_vars

\* the same story in its second session, its first one journalled Completed,
\* and later journalled a second time
C26_Witness ==
    /\ pc = "loop" /\ iteration = 3 /\ invocations = 2
    /\ allSucceeded /\ agentWrites = 0
    /\ Cardinality(EntriesAt(progressFile, CompletedEntry(story_id))) = 2
    /\ Pending(prdFile)

-----------------------------------------------------------------------------
(* Properties of the files under the agent's hands. *)

\* C27, as claimed: without the overwrite flag, a file that is at the
\* destination, put there by whomever and whenever, is never replaced by the
\* command.
C27_NoOverwriteWithoutForce ==
    [][ (~force /\ outFile.exists /\ planWrites' # planWrites)
        => outFile' = outFile ]_vars

\* C28, as claimed: the entry the loop appends after a session goes behind
\* the journal as it is then, the agent's text of that session included.
C28_AppendKeepsAgentText ==
    [][ (pc = "session" /\ appends' # appends)
        => \E e \in {CompletedEntry(story_id),
                     FailedEntry(story_id, lastOutcome'.err)} :
              progressFile'.content =
                  (IF progressFile.exists THEN progressFile.content
                   ELSE DEFAULT_PROGRESS_TEMPLATE) \o <<e, Newline>>
      ]_vars

====
